---- MODULE Spec2Model ----
(***************************************************************************)
(* honest-tuner (src/src/App.tsx): the App component's pitch pipeline and  *)
(* its listening session, as a state machine.                              *)
(*                                                                         *)
(* Representation of numbers.  The code works on IEEE doubles; TLC has     *)
(* integers only.                                                          *)
(*  - A frequency travelling through applyTranspose / frequencyToNote /    *)
(*    getGraphY is held in the log domain: the integer                     *)
(*    1200000 * log2(f / C0), its pitch in millicents above C0, where      *)
(*    C0 = 440 * 2^(-4.75) as on line 65.  Multiplying by 2^(s/12) is then *)
(*    adding s semitones, and Math.log2, Math.floor, Math.round and the    *)
(*    JS remainder are exact integer operations.  Floating-point rounding  *)
(*    error is not modelled.                                               *)
(*  - detectPitch works on lags and correlation sums, so it is computed in *)
(*    exact rational arithmetic (samples in tenths) and its result, a      *)
(*    rational number of Hz, is brought into the log domain by Log2Table.  *)
(*  - Date.now() is an integer number of milliseconds.                     *)
(***************************************************************************)
EXTENDS Integers, Sequences, FiniteSets, TLC

(***************************************************************************)
(* Bounds of the model.                                                    *)
(***************************************************************************)
\* startListening invocations in one run (each is one "session" index).
MaxStarts == 2
\* requestAnimationFrame handles handed out in one run.
MaxRaf == 3
\* Date.now() stops advancing after this many clock steps.
MaxTicks == 2

(***************************************************************************)
(* Units of the log domain.                                                *)
(***************************************************************************)
\* millicents in one cent: Math.round(1200 * log2(..)) rounds to whole cents.
MilliCent == 1000
\* millicents in one half step (12 * Math.log2(..) counts half steps).
Semitone == 100 * MilliCent
\* millicents in one octave (12 half steps).
Octave == 12 * Semitone

\* JS Math.round: the nearest integer, ties towards +Infinity, of num / den.
MathRound(num, den) == (2 * num + den) \div (2 * den)

\* JS Math.floor of num / den (den > 0).
MathFloor(num, den) == num \div den

\* JS remainder a % b (b > 0): truncated, the sign of the dividend.
JsRem(a, b) == IF a >= 0 THEN a % b ELSE -((-a) % b)

(***************************************************************************)
(* JS values that are not numbers of the model.                            *)
(***************************************************************************)
\* The number 0 where a frequency is expected (no logarithm): "no pitch".
ZeroHz == -2000000000
\* NaN as a cents value.
NaN == -999999999
\* The value of noteNames[12] and of a failed lookup.
Undefined == "undefined"

\* a4 * 2^(-4.75) is 0 millicents by definition; 20 Hz in millicents above
\* C0, rounded up: for an integer pitch p, f < 20  <=>  p < Hz20.
Hz20 == 348683
\* log2(440 / C0) = 4.75 octaves exactly.
A4 == 5700000

noteNames == <<"C", "C#", "D", "D#", "E", "F", "F#", "G", "G#", "A", "A#", "B">>

\* noteFrequencies[name], each entry as round(1200000 * log2(entry / C0)):
\* 261.63, 277.18, 293.66, 311.13, 329.63, 349.23, 369.99, 392.0, 415.3,
\* 440.0, 466.16, 493.88 Hz.  The entries are two-decimal roundings of the
\* equal-tempered pitches, so they sit a few hundredths of a cent off them.
noteFrequenciesTable ==
  <<4800029, 4899984, 4999972, 5100017, 5200013, 5300009,
    5399979, 5500020, 5599980, 5700000, 5799986, 5899988>>

\* Array.prototype.indexOf on noteNames, 0-based, -1 when absent.
indexOf(name) ==
  IF \E k \in 1..Len(noteNames) : noteNames[k] = name
    THEN (CHOOSE k \in 1..Len(noteNames) : noteNames[k] = name) - 1
    ELSE -1

\* noteNames[i] for a 0-based index: undefined outside 0..11.
noteNameAt(i) == IF i \in 0..(Len(noteNames) - 1) THEN noteNames[i + 1] ELSE Undefined

\* noteFrequencies[name]: undefined (NaN in arithmetic) for a missing key.
noteFrequencies(name) ==
  IF indexOf(name) = -1 THEN NaN ELSE noteFrequenciesTable[indexOf(name) + 1]

(***************************************************************************)
(* frequencyToNote (lines 59-80).                                          *)
(***************************************************************************)
frequencyToNote(frequency) ==
  IF frequency = ZeroHz \/ frequency < Hz20
    THEN [note |-> "", octave |-> 0, cents |-> 0]
    ELSE LET \* halfStepsBelowMiddleC, in millicents
             halfSteps == frequency
             octave == MathFloor(halfSteps, Octave)
             noteIndex == MathRound(JsRem(JsRem(halfSteps, Octave) + Octave, Octave),
                                    Semitone)
             note == noteNameAt(noteIndex)
             nearestNoteFreq == IF noteFrequencies(note) = NaN
                                  THEN NaN
                                  ELSE noteFrequencies(note) + (octave - 4) * Octave
             cents == IF nearestNoteFreq = NaN
                        THEN NaN
                        ELSE MathRound(frequency - nearestNoteFreq, MilliCent)
         IN  [note |-> note, octave |-> octave, cents |-> cents]

(***************************************************************************)
(* applyTranspose (lines 83-89); transpose is the closure's value.         *)
(***************************************************************************)
applyTranspose(frequency, transposeValue) ==
  IF transposeValue = 0 THEN frequency ELSE frequency + transposeValue * Semitone

(***************************************************************************)
(* getTransposedNoteName (lines 92-104).  The template string              *)
(* `${note}${octave}` is the pair <<note, octave>>.                         *)
(***************************************************************************)
getTransposedNoteName(baseNote, baseOctave, transposeValue) ==
  IF transposeValue = 0
    THEN <<baseNote, baseOctave>>
    ELSE LET noteIndex == indexOf(baseNote)
             newNoteIndex == JsRem(noteIndex + transposeValue + 12, 12)
             octaveShift == MathFloor(noteIndex + transposeValue, 12)
             newOctave == baseOctave + octaveShift
         IN  <<noteNameAt(newNoteIndex), newOctave>>

(***************************************************************************)
(* getGraphY (lines 272-276).  The result is a rational number of pixels:  *)
(* getGraphY(f) = getGraphYNum(f) / GraphYDen.                             *)
(***************************************************************************)
\* 400 px per octave: (octave % 1) * 400 = JsRem(pitch, Octave) * 400 / Octave.
GraphHeight == 400
GraphYDen == Octave \div GraphHeight

getGraphYNum(frequency) ==
  IF frequency = ZeroHz \/ frequency < Hz20
    THEN 0
    ELSE LET \* (log2(frequency / 440) + 4) octaves, in millicents
             octave == (frequency - A4) + 4 * Octave
         IN  JsRem(octave, Octave)

(***************************************************************************)
(* detectPitch (lines 107-162).                                            *)
(*                                                                         *)
(* A buffer is the Float32Array getFloatTimeDomainData fills: bufferLength *)
(* samples, given here by its nonzero samples only, as a function from the *)
(* 0-based index to the sample in tenths (10 is 1.0); every other index    *)
(* holds 0.  Correlation sums are then in hundredths.                      *)
(***************************************************************************)
\* analyserRef.current.fftSize
fftSize == 4096
\* analyserRef.current.frequencyBinCount, the length of dataArray (line 202)
frequencyBinCount == fftSize \div 2
\* audioContext.sampleRate: machine-dependent, fixed for the run.
sampleRate == 44100
\* one sample unit of the model is 1 / SampleUnit
SampleUnit == 10
\* const threshold = 0.1, as ThresholdNum / ThresholdDen
ThresholdNum == 1
ThresholdDen == 10
\* for (let lag = 50; ...)
FirstLag == 50
\* frequency >= 85 && frequency <= 750
MinVoiceHz == 85
MaxVoiceHz == 750

bufferAt(buffer, i) == IF i \in DOMAIN buffer THEN buffer[i] ELSE 0

RECURSIVE SumOver(_, _, _)
\* sum of buffer[i] * buffer[i + lag] over the indices of the set S
SumOver(buffer, lag, S) ==
  IF S = {}
    THEN 0
    ELSE LET i == CHOOSE j \in S : TRUE
         IN  buffer[i] * bufferAt(buffer, i + lag) + SumOver(buffer, lag, S \ {i})

\* correlationBuffer[lag] after the loop of lines 113-119 (zero samples add
\* nothing to the sum).
correlationBuffer(buffer, bufferLength, lag) ==
  SumOver(buffer, lag, {i \in DOMAIN buffer : i < bufferLength - lag})

\* Log2Table: <<num, den, p>> says that num / den Hz is p millicents above
\* C0, p = round(1200000 * log2((num / den) / C0)), for the frequencies the
\* model's buffers produce.
Log2Table ==
  { <<441, 1, 5703930>>,        \* 441 Hz      = 44100 / 100
    <<264600, 601, 5701047>> }  \* 440.266 Hz  = 44100 / (100 + 1/6)

RECURSIVE Gcd(_, _)
Gcd(a, b) == IF b = 0 THEN a ELSE Gcd(b, a % b)

\* the frequency num / den Hz (num > 0, den > 0) in the log domain
HzToPitch(num, den) ==
  LET g == Gcd(num, den)
  IN  (CHOOSE e \in Log2Table : e[1] = num \div g /\ e[2] = den \div g)[3]

\* lines 127-135, the lags at which the test of lines 128-131 can hold:
\* those of the scan whose correlation is above 0 (the initial
\* maxCorrelation) and above the threshold.  A lag that is not the distance
\* between two nonzero samples has correlation 0 and is not among them.
overThreshold(buffer, bufferLength) ==
  {lag \in {j - i : i \in DOMAIN buffer, j \in DOMAIN buffer} :
     /\ FirstLag <= lag
     /\ 2 * lag < bufferLength
     /\ correlationBuffer(buffer, bufferLength, lag) > 0
     /\ correlationBuffer(buffer, bufferLength, lag) * ThresholdDen
          > ThresholdNum * SampleUnit * SampleUnit}

\* maxLag after the loop of lines 127-135: the first lag of `over` that holds
\* the largest correlation, 0 when there is none.
firstLargest(buffer, bufferLength, over) ==
  IF over = {}
    THEN 0
    ELSE CHOOSE lag \in over :
           \A other \in over :
             \/ correlationBuffer(buffer, bufferLength, other)
                  < correlationBuffer(buffer, bufferLength, lag)
             \/ /\ correlationBuffer(buffer, bufferLength, other)
                     = correlationBuffer(buffer, bufferLength, lag)
                /\ lag <= other

\* lines 142-144: the correlations around maxLag (in hundredths)
peakAt(buffer, bufferLength, maxLag) ==
  [maxLag |-> maxLag,
   left |-> IF maxLag = 0 THEN 0 ELSE correlationBuffer(buffer, bufferLength, maxLag - 1),
   center |-> correlationBuffer(buffer, bufferLength, maxLag),
   right |-> correlationBuffer(buffer, bufferLength, maxLag + 1)]

\* lines 121-144: maxLag as the loop leaves it (0: no peak) with left,
\* center and right
findPeak(buffer, bufferLength) ==
  peakAt(buffer, bufferLength,
         firstLargest(buffer, bufferLength, overThreshold(buffer, bufferLength)))

\* the number 0 as a fraction of Hz
NoHz == <<0, 1>>

\* lines 137-159 for the peak found: the returned frequency as an exact
\* fraction <<num, den>> of Hz in lowest terms, NoHz for the number 0.
frequencyOfPeak(peak, bufferLength, rate) ==
  LET maxLag == peak.maxLag
      refine == maxLag > 0 /\ maxLag < bufferLength - 1
      \* delta = (0.5 * (left - right)) / (left - 2 * center + right)
      \*       = deltaNum / deltaDen
      deltaNum == peak.left - peak.right
      deltaDen == 2 * (peak.left - 2 * peak.center + peak.right)
      \* refinedLag = lagNum / lagDen
      lagNum == IF refine THEN maxLag * deltaDen + deltaNum ELSE maxLag
      lagDen == IF refine THEN deltaDen ELSE 1
      \* frequency = sampleRate / refinedLag = hzNum / hzDen, hzDen > 0
      hzNum == IF lagNum > 0 THEN rate * lagDen ELSE -(rate * lagDen)
      hzDen == IF lagNum > 0 THEN lagNum ELSE -lagNum
      g == Gcd(IF hzNum < 0 THEN -hzNum ELSE hzNum, hzDen)
  IN  IF maxLag = 0 THEN NoHz
      \* 0 / 0 is NaN and x / 0 is +-Infinity: refinedLag is then NaN or
      \* infinite, frequency NaN or 0, and both range tests are false.
      ELSE IF refine /\ deltaDen = 0 THEN NoHz
      \* refinedLag = 0: frequency is +-Infinity
      ELSE IF lagNum = 0 THEN NoHz
      ELSE IF hzNum >= MinVoiceHz * hzDen /\ hzNum <= MaxVoiceHz * hzDen
        THEN <<hzNum \div g, hzDen \div g>>
        ELSE NoHz

\* detectPitch(buffer, sampleRate) as a fraction of Hz
detectPitchHz(buffer, rate) ==
  frequencyOfPeak(findPeak(buffer, frequencyBinCount), frequencyBinCount, rate)

\* a fraction of Hz in the log domain, ZeroHz for the number 0
HzFractionToPitch(hz) == IF hz = NoHz THEN ZeroHz ELSE HzToPitch(hz[1], hz[2])

\* detectPitch(buffer, sampleRate): the detected frequency in the log domain,
\* ZeroHz for the number 0.
detectPitch(buffer, rate) == HzFractionToPitch(detectPitchHz(buffer, rate))

\* Frames of audio the analyser may hand to updatePitch.
Silence == <<>>
Quiet == (0 :> 3) @@ (100 :> 3)
TooHigh == (0 :> 10) @@ (55 :> 10)
TooLow == (0 :> 10) @@ (600 :> 10)
Tone441 == (0 :> 10) @@ (100 :> 10)
ToneInterpolated == (0 :> 10) @@ (100 :> 10) @@ (101 :> 5)

\* what getFloatTimeDomainData may put into dataArray in this model
AudioFrames == {Silence, Quiet, TooHigh, TooLow, Tone441, ToneInterpolated}

\* detectPitch(dataArray, audioContext.sampleRate) for each of them
detected == [buffer \in AudioFrames |-> detectPitch(buffer, sampleRate)]

(***************************************************************************)
(* The component: React state, refs, and the browser objects they hold.    *)
(***************************************************************************)
\* invocations of startListening, in the order of the clicks
Sessions == 1..MaxStarts
\* values the transpose slider is moved to (its range is -12..12)
TransposeChoices == {5}
\* milliseconds by which Date.now() advances between two steps
TickSteps == {5000, 16000}
\* (Date.now() - startTimeRef.current) / 1000
MsPerSecond == 1000
\* currentTime - point.time < 15
WindowSeconds == 15

VARIABLES
  \* useState (lines 13-19)
  isListening, currentNote, currentFrequency, currentCents, pitchHistory,
  transpose, showTranspose,
  \* useRef (lines 21-25): the index of the session whose object the ref
  \* holds, 0 for null; animationFrameRef holds a handle, 0 for undefined
  audioContextRef, analyserRef, microphoneRef, animationFrameRef, startTimeRef,
  \* per startListening invocation: where it is, and the transpose value its
  \* closure (the render that created the clicked startListening) holds
  pc, closureTranspose,
  \* browser objects per invocation: the MediaStream, the AudioContext, the
  \* MediaStreamAudioSourceNode
  stream, audioContext, microphone,
  \* the browser's animation frame callback list: per invocation the handle
  \* of its pending updatePitch callback (0: none), and the handles given out
  rafCallback, rafCount,
  \* Date.now(), and the clock steps taken
  now, ticks,
  \* alert() calls, and whether the component is mounted
  alerts, mounted,
  \* TRUE from a stopListening call until the next startListening call
  stoppedSinceStart,
  \* the last updatePitch iteration: the frequency detectPitch returned to it
  \* and the number of points its history update dropped
  lastFrame,
  \* a call of one of the pure functions on its own: the arguments, the
  \* function called ("none" before the call) and what it returned
  argFrequency, argTranspose, argBuffer, argRate, called, result

state == <<isListening, currentNote, currentFrequency, currentCents, pitchHistory>>
refs == <<audioContextRef, analyserRef, microphoneRef, animationFrameRef, startTimeRef>>
resources == <<stream, audioContext, microphone>>
vars == <<isListening, currentNote, currentFrequency, currentCents, pitchHistory,
          transpose, showTranspose,
          audioContextRef, analyserRef, microphoneRef, animationFrameRef, startTimeRef,
          pc, closureTranspose, stream, audioContext, microphone,
          rafCallback, rafCount, now, ticks, alerts, mounted, stoppedSinceStart,
          lastFrame, argFrequency, argTranspose, argBuffer, argRate, called, result>>
call == <<argFrequency, argTranspose, argBuffer, argRate, called, result>>

\* the component after its first render
Mounted ==
  /\ isListening = FALSE
  /\ currentNote = ""
  /\ currentFrequency = ZeroHz
  /\ currentCents = 0
  /\ pitchHistory = <<>>
  /\ transpose = 0
  /\ showTranspose = FALSE
  /\ audioContextRef = 0
  /\ analyserRef = 0
  /\ microphoneRef = 0
  /\ animationFrameRef = 0
  /\ startTimeRef = 0
  /\ pc = [i \in Sessions |-> "idle"]
  /\ closureTranspose = [i \in Sessions |-> 0]
  /\ stream = [i \in Sessions |-> "none"]
  /\ audioContext = [i \in Sessions |-> "none"]
  /\ microphone = [i \in Sessions |-> "none"]
  /\ rafCallback = [i \in Sessions |-> 0]
  /\ rafCount = 0
  /\ now = 0
  /\ ticks = 0
  /\ alerts = 0
  /\ mounted = TRUE
  /\ stoppedSinceStart = FALSE
  /\ lastFrame = [frequency |-> ZeroHz, evicted |-> 0]

Init ==
  /\ Mounted
  /\ argFrequency = ZeroHz
  /\ argTranspose = 0
  /\ argBuffer = Silence
  /\ argRate = sampleRate
  /\ called = "none"
  /\ result = <<>>

(***************************************************************************)
(* updatePitch (lines 205-237), one iteration, run by invocation i on the  *)
(* frame `buffer`.  A state setter of an unmounted component does nothing. *)
(***************************************************************************)
\* the updater with its filter left out
appendPoint_KeepsAll(prev, newPoint, currentTime) == Append(prev, newPoint)

\* setPitchHistory's updater (lines 229-233); times are in milliseconds
appendPoint(prev, newPoint, currentTime) ==
  LET updated == Append(prev, newPoint)
  IN  SelectSeq(updated,
                LAMBDA point : currentTime - point.time < WindowSeconds * MsPerSecond)

\* the PitchPoint of lines 221-227
NewPoint(currentTime, transposedFreq, n) ==
  [time |-> currentTime, frequency |-> transposedFreq,
   note |-> n.note, octave |-> n.octave, cents |-> n.cents]

\* a frame without a pitch blanks the display
ShowPitch_BlanksOnNone(i, frequency) ==
  IF frequency # ZeroHz /\ mounted
    THEN LET transposedFreq == applyTranspose(frequency, closureTranspose[i])
             n == frequencyToNote(transposedFreq)
             currentTime == now - startTimeRef'
         IN  /\ currentFrequency' = transposedFreq
             /\ currentNote' = n.note
             /\ currentCents' = n.cents
             /\ pitchHistory' = appendPoint(pitchHistory,
                                            NewPoint(currentTime, transposedFreq, n),
                                            currentTime)
    ELSE /\ currentFrequency' = ZeroHz
         /\ currentNote' = ""
         /\ currentCents' = 0
         /\ UNCHANGED pitchHistory

\* lines 211-234: what a detected frequency does to the React state
ShowPitch(i, frequency) ==
  IF frequency # ZeroHz /\ mounted
    THEN LET transposedFreq == applyTranspose(frequency, closureTranspose[i])
             n == frequencyToNote(transposedFreq)
             currentTime == now - startTimeRef'
         IN  /\ currentFrequency' = transposedFreq
             /\ currentNote' = n.note
             /\ currentCents' = n.cents
             /\ pitchHistory' = appendPoint(pitchHistory,
                                            NewPoint(currentTime, transposedFreq, n),
                                            currentTime)
    ELSE UNCHANGED <<currentFrequency, currentNote, currentCents, pitchHistory>>

\* line 236: animationFrameRef.current = requestAnimationFrame(updatePitch)
Reschedule(i) ==
  /\ rafCount' = rafCount + 1
  /\ rafCallback' = [rafCallback EXCEPT ![i] = rafCount + 1]
  /\ animationFrameRef' = rafCount + 1

updatePitch(i, buffer) ==
  IF analyserRef' = 0
    THEN /\ UNCHANGED <<currentFrequency, currentNote, currentCents, pitchHistory>>
         /\ UNCHANGED <<rafCount, animationFrameRef, lastFrame>>
         /\ rafCallback' = [rafCallback EXCEPT ![i] = 0]
    ELSE /\ ShowPitch(i, detected[buffer])
         /\ Reschedule(i)
         /\ lastFrame' = [frequency |-> detected[buffer],
                          evicted |-> IF detected[buffer] # ZeroHz /\ mounted
                                        THEN Len(pitchHistory) + 1 - Len(pitchHistory')
                                        ELSE 0]

(***************************************************************************)
(* startListening (lines 183-244).                                         *)
(***************************************************************************)
\* the next invocation: the button runs startListening while the rendered
\* isListening is false (line 342); the function runs up to its await
ClickStart ==
  /\ mounted
  /\ ~isListening
  /\ \E i \in Sessions :
       /\ pc[i] = "idle"
       /\ \A j \in Sessions : j < i => pc[j] # "idle"
       /\ pc' = [pc EXCEPT ![i] = "awaiting"]
       /\ closureTranspose' = [closureTranspose EXCEPT ![i] = transpose]
  /\ stoppedSinceStart' = FALSE
  /\ UNCHANGED <<state, transpose, showTranspose, refs, resources,
                 rafCallback, rafCount, now, ticks, alerts, mounted, lastFrame>>

\* isListening set before the await and not taken back by the catch block
GetUserMediaRejects_LeavesListening(i) ==
  /\ pc[i] = "awaiting"
  /\ pc' = [pc EXCEPT ![i] = "rejected"]
  /\ alerts' = alerts + 1
  /\ isListening' = TRUE
  /\ UNCHANGED <<currentNote, currentFrequency, currentCents, pitchHistory,
                 transpose, showTranspose, refs, closureTranspose, resources,
                 rafCallback, rafCount, now, ticks, mounted, stoppedSinceStart, lastFrame>>

\* getUserMedia rejects (permission denied, no device): lines 240-243
GetUserMediaRejects(i) ==
  /\ pc[i] = "awaiting"
  /\ pc' = [pc EXCEPT ![i] = "rejected"]
  /\ alerts' = alerts + 1
  /\ UNCHANGED <<state, transpose, showTranspose, refs, closureTranspose, resources,
                 rafCallback, rafCount, now, ticks, mounted, stoppedSinceStart, lastFrame>>

\* getUserMedia resolves and the AudioContext constructor throws (line 187):
\* the stream is held by nothing, the catch block alerts
AudioContextThrows(i) ==
  /\ pc[i] = "awaiting"
  /\ pc' = [pc EXCEPT ![i] = "threw"]
  /\ stream' = [stream EXCEPT ![i] = "live"]
  /\ alerts' = alerts + 1
  /\ UNCHANGED <<state, transpose, showTranspose, refs, closureTranspose,
                 audioContext, microphone,
                 rafCallback, rafCount, now, ticks, mounted, stoppedSinceStart, lastFrame>>

\* getUserMedia resolves: lines 185-239, with the first updatePitch() call
GetUserMediaResolves(i, buffer) ==
  /\ pc[i] = "awaiting"
  /\ rafCount < MaxRaf
  /\ pc' = [pc EXCEPT ![i] = "done"]
  /\ stream' = [stream EXCEPT ![i] = "live"]
  /\ audioContext' = [audioContext EXCEPT ![i] = "running"]
  /\ audioContextRef' = i
  /\ analyserRef' = i
  /\ microphone' = [microphone EXCEPT ![i] = "connected"]
  /\ microphoneRef' = i
  /\ isListening' = IF mounted THEN TRUE ELSE isListening
  /\ startTimeRef' = now
  /\ updatePitch(i, buffer)
  /\ UNCHANGED <<transpose, showTranspose, closureTranspose,
                 now, ticks, alerts, mounted, stoppedSinceStart>>

(***************************************************************************)
(* The browser runs a pending animation frame callback: callbacks run in   *)
(* the order they were requested, so the lowest pending handle is next.    *)
(***************************************************************************)
AnimationFrame(i, buffer) ==
  /\ rafCallback[i] # 0
  /\ \A j \in Sessions : rafCallback[j] # 0 => rafCallback[i] <= rafCallback[j]
  /\ rafCount < MaxRaf
  /\ UNCHANGED <<analyserRef, startTimeRef>>
  /\ updatePitch(i, buffer)
  /\ UNCHANGED <<isListening, transpose, showTranspose, audioContextRef, microphoneRef,
                 pc, closureTranspose, resources, now, ticks, alerts, mounted,
                 stoppedSinceStart>>

(***************************************************************************)
(* stopListening (lines 246-263).                                          *)
(***************************************************************************)
stopListening ==
  /\ rafCallback' = [i \in Sessions |->
                       IF animationFrameRef # 0 /\ rafCallback[i] = animationFrameRef
                         THEN 0 ELSE rafCallback[i]]
  /\ microphone' = IF microphoneRef # 0
                     THEN [microphone EXCEPT ![microphoneRef] = "disconnected"]
                     ELSE microphone
  /\ audioContext' = IF audioContextRef # 0
                       THEN [audioContext EXCEPT ![audioContextRef] = "closed"]
                       ELSE audioContext
  /\ isListening' = FALSE
  /\ currentNote' = ""
  /\ currentFrequency' = ZeroHz
  /\ currentCents' = 0
  /\ stoppedSinceStart' = TRUE
  /\ UNCHANGED <<pitchHistory, transpose, showTranspose, refs, pc, closureTranspose,
                 stream, rafCount, now, ticks, alerts, lastFrame>>

\* the button runs stopListening while the rendered isListening is true
ClickStop ==
  /\ mounted
  /\ isListening
  /\ stopListening
  /\ UNCHANGED mounted

\* the effect cleanup of lines 265-269, run when the component unmounts
Unmount ==
  /\ mounted
  /\ stopListening
  /\ mounted' = FALSE

(***************************************************************************)
(* The other controls.                                                     *)
(***************************************************************************)
\* the clear button (lines 374-379)
ClickClear ==
  /\ mounted
  /\ pitchHistory' = <<>>
  /\ UNCHANGED <<isListening, currentNote, currentFrequency, currentCents,
                 transpose, showTranspose, refs, pc, closureTranspose, resources,
                 rafCallback, rafCount, now, ticks, alerts, mounted, stoppedSinceStart, lastFrame>>

\* the toggle of lines 411-416
ToggleTranspose ==
  /\ mounted
  /\ showTranspose' = ~showTranspose
  /\ UNCHANGED <<state, transpose, refs, pc, closureTranspose, resources,
                 rafCallback, rafCount, now, ticks, alerts, mounted, stoppedSinceStart, lastFrame>>

\* the slider (lines 424-432), shown only while showTranspose
ChangeTranspose(s) ==
  /\ mounted
  /\ showTranspose
  /\ s # transpose
  /\ transpose' = s
  /\ UNCHANGED <<state, showTranspose, refs, pc, closureTranspose, resources,
                 rafCallback, rafCount, now, ticks, alerts, mounted, stoppedSinceStart, lastFrame>>

\* the reset button (lines 433-438)
ResetTranspose ==
  /\ mounted
  /\ showTranspose
  /\ transpose' = 0
  /\ UNCHANGED <<state, showTranspose, refs, pc, closureTranspose, resources,
                 rafCallback, rafCount, now, ticks, alerts, mounted, stoppedSinceStart, lastFrame>>

\* time passes
Tick(d) ==
  /\ ticks < MaxTicks
  /\ ticks' = ticks + 1
  /\ now' = now + d
  /\ UNCHANGED <<state, transpose, showTranspose, refs, pc, closureTranspose, resources,
                 rafCallback, rafCount, alerts, mounted, stoppedSinceStart, lastFrame>>

Next ==
  \/ ClickStart /\ UNCHANGED call
  \/ \E i \in Sessions : GetUserMediaRejects(i) /\ UNCHANGED call
  \/ \E i \in Sessions : AudioContextThrows(i) /\ UNCHANGED call
  \/ \E i \in Sessions, buffer \in AudioFrames :
       GetUserMediaResolves(i, buffer) /\ UNCHANGED call
  \/ \E i \in Sessions, buffer \in AudioFrames :
       AnimationFrame(i, buffer) /\ UNCHANGED call
  \/ ClickStop /\ UNCHANGED call
  \/ Unmount /\ UNCHANGED call
  \/ ClickClear /\ UNCHANGED call
  \/ ToggleTranspose /\ UNCHANGED call
  \/ \E s \in TransposeChoices : ChangeTranspose(s) /\ UNCHANGED call
  \/ ResetTranspose /\ UNCHANGED call
  \/ \E d \in TickSteps : Tick(d) /\ UNCHANGED call

Spec == Init /\ [][Next]_vars

(***************************************************************************)
(* The pure functions called on their own, over a grid of frequencies and  *)
(* every slider position.                                                  *)
(***************************************************************************)
\* grid points per half step
GridPerSemitone == 4
GridStep == Semitone \div GridPerSemitone
\* 1500 Hz, an octave above the voice band, in millicents above C0 (rounded)
GridTop == 7823264
\* pitches from 20 Hz up, GridStep apart; the grid holds the pitches half way
\* between two notes and the notes themselves
FrequencyGrid == {k * GridStep : k \in (Hz20 \div GridStep + 1)..(GridTop \div GridStep)}
\* the slider's range (lines 427-428)
TransposeMin == -12
TransposeMax == 12

appVars == <<isListening, currentNote, currentFrequency, currentCents, pitchHistory,
             transpose, showTranspose,
             audioContextRef, analyserRef, microphoneRef, animationFrameRef, startTimeRef,
             pc, closureTranspose, stream, audioContext, microphone,
             rafCallback, rafCount, now, ticks, alerts, mounted, stoppedSinceStart,
             lastFrame>>

InitFn ==
  /\ Mounted
  /\ argFrequency \in FrequencyGrid
  /\ argTranspose \in TransposeMin..TransposeMax
  /\ argBuffer = Silence
  /\ argRate = sampleRate
  /\ called = "none"
  /\ result = <<>>

\* frequencyToNote(f)
CallFrequencyToNote ==
  /\ called = "none"
  /\ called' = "frequencyToNote"
  /\ result' = frequencyToNote(argFrequency)
  /\ UNCHANGED <<argFrequency, argTranspose, argBuffer, argRate, appVars>>

\* frequencyToNote(applyTranspose(f)) beside
\* getTransposedNoteName(frequencyToNote(f).note, frequencyToNote(f).octave),
\* both under transpose = s
CallTransposed ==
  /\ called = "none"
  /\ called' = "transposed"
  /\ result' =
       [mapped |-> frequencyToNote(applyTranspose(argFrequency, argTranspose)),
        shifted |-> getTransposedNoteName(frequencyToNote(argFrequency).note,
                                          frequencyToNote(argFrequency).octave,
                                          argTranspose)]
  /\ UNCHANGED <<argFrequency, argTranspose, argBuffer, argRate, appVars>>

\* getGraphY(f) beside getGraphY(2 * f)
CallGetGraphY ==
  /\ called = "none"
  /\ called' = "getGraphY"
  /\ result' = [y |-> getGraphYNum(argFrequency),
                yOctaveUp |-> getGraphYNum(argFrequency + Octave)]
  /\ UNCHANGED <<argFrequency, argTranspose, argBuffer, argRate, appVars>>

NextFn ==
  \/ CallFrequencyToNote
  \/ CallTransposed
  \/ CallGetGraphY

SpecFn == InitFn /\ [][NextFn]_vars

(***************************************************************************)
(* detectPitch called on its own, over frames that hold one unit sample at *)
(* index 0 and three neighbouring samples around a lag, and over the       *)
(* sample rates of the audio devices considered.                           *)
(***************************************************************************)
\* the sample values tried around the lag, in tenths
Amplitudes == {0, 5, 10, 15}
\* the lags the three samples are centred on: the first lag of the scan of
\* line 127, and a lag inside it
FrameLags == {FirstLag, 100}
\* buffer[0] = 1.0, buffer[lag - 1 .. lag + 1] = before, at, after
Frame(lag, before, at, after) ==
  (0 :> SampleUnit) @@ (lag - 1 :> before) @@ (lag :> at) @@ (lag + 1 :> after)
DetectFrames ==
  {Frame(lag, before, at, after) :
     lag \in FrameLags, before \in Amplitudes, at \in Amplitudes, after \in Amplitudes}
\* audioContext.sampleRate of a headset microphone, and of two sound cards
SampleRates == {16000, 44100, 48000}

\* the peak the scan finds in each frame
peaks == [buffer \in DetectFrames |-> findPeak(buffer, frequencyBinCount)]
\* detectPitch(buffer, rate) for each frame and rate
detectedHz ==
  [buffer \in DetectFrames |-> [rate \in SampleRates |-> detectPitchHz(buffer, rate)]]

InitDetect ==
  /\ Mounted
  /\ argFrequency = ZeroHz
  /\ argTranspose = 0
  /\ argBuffer \in DetectFrames
  /\ argRate \in SampleRates
  /\ called = "none"
  /\ result = <<>>

\* detectPitch(buffer, sampleRate)
CallDetectPitch ==
  /\ called = "none"
  /\ called' = "detectPitch"
  /\ result' = detectedHz[argBuffer][argRate]
  /\ UNCHANGED <<argFrequency, argTranspose, argBuffer, argRate, appVars>>

NextDetect == CallDetectPitch

SpecDetect == InitDetect /\ [][NextDetect]_vars

(***************************************************************************)
(* The claims.                                                             *)
(***************************************************************************)
\* a step in which an updatePitch iteration ran through to line 236
FrameStep == rafCount' = rafCount + 1

\* a step that is a call of stopListening (the stop button or the cleanup)
StopStep == ClickStop \/ Unmount

\* C1: once stopListening has run, no updatePitch iteration runs and the
\* displayed note, frequency and cents stay at empty/zero, until
\* startListening is called again -- whatever starts were pending.  (Stated
\* for the mounted component, where the user events of the claim happen.)
C1_NoFrameAfterStop ==
  [][(stoppedSinceStart /\ mounted') =>
       /\ ~FrameStep
       /\ stoppedSinceStart' =>
            (currentNote' = "" /\ currentFrequency' = ZeroHz /\ currentCents' = 0)]_vars

\* invocation i holds an audio resource that was acquired and not released:
\* a running AudioContext, a connected source node, or a live stream whose
\* source node was never disconnected
Unreleased(i) ==
  \/ audioContext[i] = "running"
  \/ microphone[i] = "connected"
  \/ stream[i] = "live" /\ microphone[i] # "disconnected"

\* C2: when stopListening (stop button or teardown) has run, no audio
\* resource that startListening acquired is left unreleased.
C2_ReleasedAfterStop ==
  [][StopStep => \A i \in Sessions : ~Unreleased(i)']_vars

\* C4: in the state right after stopListening, pitchHistory is empty.
C4_HistoryClearedOnStop ==
  [][StopStep => pitchHistory' = <<>>]_vars

\* a step in which invocation i ran one updatePitch iteration on `buffer`:
\* the first call of line 239 or an animation frame callback
Iteration(i, buffer) == GetUserMediaResolves(i, buffer) \/ AnimationFrame(i, buffer)

\* C3: right after an append at session time T, every retained point p has
\* T - p.time < 15 s; and an append at T to a history lying within
\* [T - 20 s, T - 16 s] leaves the new point alone.
C3_WindowAfterAppend ==
  [][\A i \in Sessions, buffer \in AudioFrames :
       (Iteration(i, buffer) /\ detected[buffer] # ZeroHz /\ mounted) =>
         LET T == now - startTimeRef'
             Retained == 1..Len(pitchHistory')
             Before == 1..Len(pitchHistory)
         IN  /\ Len(pitchHistory') >= 1
             /\ pitchHistory'[Len(pitchHistory')].time = T
             /\ \A k \in Retained :
                  T - pitchHistory'[k].time < WindowSeconds * MsPerSecond
             /\ (\A k \in Before :
                   /\ T - 20 * MsPerSecond <= pitchHistory[k].time
                   /\ pitchHistory[k].time <= T - 16 * MsPerSecond)
                => Len(pitchHistory') = 1]_vars

\* C3's case: the last append was made at session time T >= 16 s and dropped
\* at least one older point, leaving the new point alone.
C3_Witness ==
  /\ lastFrame.frequency # ZeroHz
  /\ lastFrame.evicted >= 1
  /\ Len(pitchHistory) = 1
  /\ pitchHistory[1].time = now - startTimeRef
  /\ pitchHistory[1].time >= 16 * MsPerSecond

\* C5: an iteration that detects a pitch shows and records the raw frequency
\* transposed by the value transpose has at that iteration.
C5_FrameUsesCurrentTranspose ==
  [][\A i \in Sessions, buffer \in AudioFrames :
       (Iteration(i, buffer) /\ detected[buffer] # ZeroHz /\ mounted) =>
         LET expected == applyTranspose(detected[buffer], transpose)
         IN  /\ currentFrequency' = expected
             /\ currentNote' = frequencyToNote(expected).note
             /\ pitchHistory'[Len(pitchHistory')].frequency = expected
             /\ pitchHistory'[Len(pitchHistory')].note = frequencyToNote(expected).note]_vars

\* C6: a startListening whose getUserMedia rejects raises the notice and
\* changes nothing else -- isListening, the display, the history, the refs,
\* the frame loop and the audio resources are as before and the invocation
\* holds nothing; and a later invocation that resolves starts a session.
C6_RejectedStartLeavesNothing ==
  [][\A i \in Sessions :
       /\ (pc[i] = "awaiting" /\ pc'[i] = "rejected") =>
            /\ alerts' = alerts + 1
            /\ UNCHANGED <<isListening, currentNote, currentFrequency, currentCents,
                           pitchHistory>>
            /\ UNCHANGED <<refs, resources, rafCallback, rafCount>>
            /\ stream'[i] = "none" /\ audioContext'[i] = "none"
            /\ microphone'[i] = "none" /\ rafCallback'[i] = 0
       /\ \A j \in Sessions :
            (pc[i] = "rejected" /\ j > i /\ pc[j] = "awaiting" /\ pc'[j] = "done"
             /\ mounted) =>
              /\ isListening'
              /\ rafCallback'[j] # 0
              /\ stream'[j] = "live" /\ audioContext'[j] = "running"
              /\ microphone'[j] = "connected"
              /\ startTimeRef' = now]_vars

\* C6's case: the first start was rejected (one notice), the second one is a
\* running session.
C6_Witness ==
  /\ pc[1] = "rejected" /\ stream[1] = "none"
  /\ pc[2] = "done"
  /\ alerts = 1
  /\ isListening
  /\ rafCallback[2] # 0
  /\ audioContext[2] = "running"

\* C7: an iteration whose detectPitch result is 0 (no peak, or a frequency
\* outside [85, 750] Hz) appends nothing, leaves the displayed note,
\* frequency and cents as they were, and requests the next frame.
C7_NoPitchFrameSkipped ==
  [][\A i \in Sessions, buffer \in AudioFrames :
       (Iteration(i, buffer) /\ detected[buffer] = ZeroHz) =>
         /\ UNCHANGED <<pitchHistory, currentNote, currentFrequency, currentCents>>
         /\ rafCallback'[i] # 0
         /\ animationFrameRef' = rafCallback'[i]
         /\ \A j \in Sessions : rafCallback[j] # rafCallback'[i]]_vars

\* C7's case: the last iteration detected nothing, after an earlier one had
\* shown a note and recorded a point; both are still there and a callback
\* is pending.
C7_Witness ==
  /\ lastFrame.frequency = ZeroHz
  /\ rafCount >= 2
  /\ currentNote = "A" /\ currentFrequency # ZeroHz
  /\ Len(pitchHistory) = 1
  /\ \E i \in Sessions : rafCallback[i] = rafCount /\ animationFrameRef = rafCount

\* 85 Hz and 750 Hz in millicents above C0: for an integer pitch p,
\* 85 <= f  <=>  VoiceBandLow <= p,  and  f <= 750  <=>  p <= VoiceBandHigh
VoiceBandLow == 2853638
VoiceBandHigh == 6623264
InVoiceBand(frequency) == VoiceBandLow <= frequency /\ frequency <= VoiceBandHigh

\* the 12 pitch classes
PitchClasses == {noteNames[k] : k \in 1..Len(noteNames)}

\* C8: for f in [85, 750] Hz, frequencyToNote(f) is one of the 12 pitch
\* classes, an integer octave, and the cents of f against the reference
\* frequency of that note and octave, at most 50 in size.
C8_NoteWithinHalfSemitone ==
  (called = "frequencyToNote" /\ InVoiceBand(argFrequency)) =>
    /\ result.note \in PitchClasses
    /\ result.octave \in Int
    /\ result.cents # NaN
    /\ result.cents =
         MathRound(argFrequency
                     - (noteFrequencies(result.note) + (result.octave - 4) * Octave),
                   MilliCent)
    /\ -50 <= result.cents /\ result.cents <= 50

\* C9: for f in the band detectPitch lets through and every slider position
\* s, frequencyToNote(f * 2^(s/12)) has the note name and octave that
\* getTransposedNoteName gives for frequencyToNote(f).
C9_TransposeCommutes ==
  (called = "transposed" /\ InVoiceBand(argFrequency)) =>
    <<result.mapped.note, result.mapped.octave>> = result.shifted

\* C10: for f >= 20 Hz, getGraphY(f) = getGraphY(2 * f), and the value is
\* ((log2(f / 440) + 4) mod 1) * 400, within [0, 400).
C10_GraphYPeriodic ==
  called = "getGraphY" =>
    /\ result.y = result.yOctaveUp
    /\ result.y = ((argFrequency - A4) + 4 * Octave) % Octave
    /\ 0 <= result.y /\ result.y < GraphHeight * GraphYDen

\* C11: when detectPitch selected a peak lag L* and the interpolation
\* denominator left - 2 * center + right is zero, the result is the
\* frequency of the unrefined lag, sampleRate / L*, whenever that lies in
\* [85, 750] Hz: the degeneracy does not turn the frame into "none".
C11_DegenerateDenominatorFallsBack ==
  LET peak == peaks[argBuffer]
      g == Gcd(argRate, peak.maxLag)
  IN  (/\ called = "detectPitch"
       /\ peak.maxLag > 0
       /\ peak.left - 2 * peak.center + peak.right = 0
       /\ MinVoiceHz * peak.maxLag <= argRate
       /\ argRate <= MaxVoiceHz * peak.maxLag) =>
        result = <<argRate \div g, peak.maxLag \div g>>
====
